---------------------------- MODULE Spec2Model ----------------------------
(***************************************************************************)
(* RigettiBackend (projectq/backends/_rigetti/_rigetti.py): the engine     *)
(* that accumulates a circuit as Quil text, submits it at a flush,         *)
(* rebuilds the probability table from the returned shots and registers    *)
(* one measured outcome.                                                   *)
(*                                                                         *)
(* Text is modelled line by line: the program text is the sequence of its  *)
(* instruction lines (the empty text is the empty sequence), a basis state *)
(* is the sequence of its characters (bits).  A probability is the         *)
(* fraction <<count, shots>>.  A Python dict is the sequence of its        *)
(* [k, v] items in insertion order.                                        *)
(***************************************************************************)
EXTENDS Integers, Sequences, FiniteSets, TLC

(***************************************************************************)
(* Bounds of the model.                                                    *)
(***************************************************************************)
MaxQubit == 1
MaxLines == 4
MaxFlushes == 2
MaxStored == 4
MaxMeasured == 2
MaxControls == 3
NumRuns == 2

(***************************************************************************)
(* Program constants.                                                      *)
(***************************************************************************)
DefaultNumRuns == 1024

Qubits == 0 .. MaxQubit
Bits == {0, 1}

RIGETTI_DEVICES == <<"8Q-Agave", "19Q-Acorn">>
NOT == "X"
Rotations == {"Rx", "Ry", "Rz", "Ph"}
Gates == {"X", "Y", "Z", "T", "Tdag", "S", "Sdag", "H", "Rx", "Ry", "Rz", "Ph",
          "Measure", "Allocate", "Deallocate", "Barrier", "Entangle"}
NoJob == "None"

(***************************************************************************)
(* Python containers.                                                      *)
(***************************************************************************)
DictKeys(d) == {d[i].k : i \in DOMAIN d}

DictGet(d, key) == d[CHOOSE i \in DOMAIN d : d[i].k = key].v

\* d[key] = val: an existing key keeps its place, a new one goes last
DictSet(d, key, val) ==
    IF key \in DictKeys(d)
    THEN [i \in DOMAIN d |-> IF d[i].k = key THEN [k |-> key, v |-> val] ELSE d[i]]
    ELSE Append(d, [k |-> key, v |-> val])

Reversed(s) == [i \in 1 .. Len(s) |-> s[Len(s) + 1 - i]]

(***************************************************************************)
(* Commands.  A command has a gate, its control qubits, its target qubit   *)
(* and its tags (only the LogicalQubitIDTags are kept, as their ids).      *)
(***************************************************************************)
Cmd(g, cs, q, ts) == [gate |-> g, controls |-> cs, qubit |-> q, tags |-> ts]

get_control_count(cmd) == Len(cmd.controls)


(***************************************************************************)
(* The backend's fields, the mapper's table, and what the last handler     *)
(* call did (its name, the error it raised, the network calls it made,     *)
(* the bits it registered, the value it returned).                         *)
(***************************************************************************)
VARIABLES
    clear,              \* self._clear
    measured_ids,       \* self._measured_ids
    probabilities,      \* self._probabilities
    quil,               \* self.quil
    allocated_qubits,   \* self._allocated_qubits
    device,             \* self.device
    num_runs,           \* self._num_runs
    retrieve_execution, \* self._retrieve_execution
    mapping,            \* self.main_engine.mapper.current_mapping
    op,                 \* the last handler called
    err,                \* the exception it raised ("" when it returned)
    net,                \* the calls of send / retrieve it made
    delivered,          \* its calls of main_engine.set_measurement_result
    ret,                \* the value it returned
    idle,               \* history: no command stored since construction or the last flush
    accepted,           \* history: logical ids of the Measure commands stored since then
    ran,                \* history: some run has completed since construction
    flushes,            \* history: the flushes received
    stored,             \* history: the commands stored
    init_args,          \* history: the arguments of __init__
    client,             \* the call of send / retrieve: its position and what it did
    input               \* history: what the last handler was given

backend == <<clear, measured_ids, probabilities, quil, allocated_qubits,
             device, num_runs, retrieve_execution>>
history == <<idle, accepted, ran, flushes, stored>>
\* what the handlers of the backend do not touch
outside == <<init_args, client, input>>
vars == <<clear, measured_ids, probabilities, quil, allocated_qubits,
          device, num_runs, retrieve_execution, mapping,
          op, err, net, delivered, ret, idle, accepted, ran, flushes, stored,
          init_args, client, input>>

NoRet == [kind |-> "none", val |-> <<>>, arg |-> <<>>]

\* no input: the command stored (cmd), the shots that send / retrieve
\* returned (res) and the value drawn at line 283 (draw)
NoInput == [cmd |-> <<>>, res |-> <<>>, draw |-> <<>>]

\* the client when no call of send / retrieve has been made
NoError == [kind |-> "", device |-> "", jobid |-> NoJob]
ClientIdle ==
    [fn |-> "none", phase |-> "IDLE", device |-> "", jobid |-> NoJob,
     polls |-> 0, sleeps |-> 0, decodes |-> 0, log |-> <<>>,
     result |-> <<>>, error |-> NoError]

(***************************************************************************)
(* __init__ (after BasicEngine.__init__ and _reset).                       *)
(***************************************************************************)
\* mutant: the device argument kept whether or not hardware is asked for
Construct_DeviceKept(use_hardware, shots, dev, job) ==
    /\ clear = TRUE
    /\ measured_ids = <<>>
    /\ device = dev
    /\ num_runs = shots
    /\ probabilities = <<>>
    /\ quil = <<>>
    /\ allocated_qubits = {}
    /\ retrieve_execution = job
    /\ init_args = [use_hardware |-> use_hardware, device |-> dev]

Construct(use_hardware, shots, dev, job) ==
    /\ clear = TRUE
    /\ measured_ids = <<>>
    /\ device = (IF use_hardware THEN dev ELSE "QVM")
    /\ num_runs = shots
    /\ probabilities = <<>>
    /\ quil = <<>>
    /\ allocated_qubits = {}
    /\ retrieve_execution = job
    /\ init_args = [use_hardware |-> use_hardware, device |-> dev]

\* the mapper's tables: one-to-one placements of some of the logical qubits
Mappings ==
    {[q \in Qubits |-> q], [q \in Qubits |-> MaxQubit - q], [q \in Qubits \ {MaxQubit} |-> q]}

Fresh ==
    /\ op = "init" /\ err = "" /\ net = <<>> /\ delivered = <<>> /\ ret = NoRet
    /\ idle = TRUE /\ accepted = <<>> /\ ran = FALSE /\ flushes = 0 /\ stored = 0
    /\ client = ClientIdle
    /\ input = NoInput

Init ==
    /\ Construct(FALSE, NumRuns, RIGETTI_DEVICES[1], NoJob)
    /\ mapping \in Mappings
    /\ Fresh

(***************************************************************************)
(* is_available                                                            *)
(***************************************************************************)
\* mutant: H left out of the tuple of line 102
is_available_WithoutH(cmd) ==
    LET g == cmd.gate IN
    IF g = "Barrier" THEN FALSE
    ELSE IF g = NOT /\ get_control_count(cmd) <= 2 THEN TRUE
    ELSE IF g \in {"T", "Tdag", "S", "Sdag", "X", "Y", "Z"} THEN TRUE
    ELSE IF g \in Rotations THEN TRUE
    ELSE IF g \in {"Measure", "Allocate", "Deallocate"} THEN TRUE
    ELSE FALSE

is_available(cmd) ==
    LET g == cmd.gate IN
    IF g = "Barrier" THEN FALSE
    ELSE IF g = NOT /\ get_control_count(cmd) <= 2 THEN TRUE
    ELSE IF g \in {"T", "Tdag", "S", "Sdag", "H", "X", "Y", "Z"} THEN TRUE
    ELSE IF g \in Rotations THEN TRUE
    ELSE IF g \in {"Measure", "Allocate", "Deallocate"} THEN TRUE
    ELSE FALSE

IsAvailable(cmd) ==
    /\ op' = "is_available"
    /\ err' = ""
    /\ ret' = [kind |-> "bool", val |-> is_available(cmd), arg |-> cmd]
    /\ net' = <<>> /\ delivered' = <<>>
    /\ UNCHANGED <<backend, mapping, history>>

(***************************************************************************)
(* _store                                                                  *)
(***************************************************************************)
\* str(gate).upper() of the gates, a rotation carrying its angle
Upper(g) ==
    CASE g = "Tdag" -> "T^\\DAGGER"
      [] g = "Sdag" -> "S^\\DAGGER"
      [] g = "Rx" -> "RX(0.5)"
      [] g = "Ry" -> "RY(0.5)"
      [] g = "Rz" -> "RZ(0.5)"
      [] g = "Ph" -> "PH(0.5)"
      [] g = "Measure" -> "MEASURE"
      [] g = "Allocate" -> "ALLOCATE"
      [] g = "Deallocate" -> "DEALLOCATE"
      [] g = "Barrier" -> "BARRIER"
      [] g = "Entangle" -> "ENTANGLE"
      [] OTHER -> g

\* _gate_names, keyed by str(Tdag), str(Sdag) and str(Ph) (the class)
gate_names(g) ==
    CASE g = "Tdag" -> "DAGGER T"
      [] g = "Sdag" -> "DAGGER S"
      [] OTHER -> Upper(g)

\* .replace('PH(', 'PHASE(')
RotationStr(g) == IF g = "Ph" THEN "PHASE(0.5)" ELSE Upper(g)

\* one instruction line: "\n[CONTROLLED ]NAME arg ..."
Line(prefix, name, args) == [prefix |-> prefix, name |-> name, args |-> args]

\* lines 139-182: what the command adds to the measured ids and to the text,
\* or the assertion it fails
Translate(cmd) ==
    LET gate == cmd.gate
        cc == get_control_count(cmd)
        qb == cmd.qubit
        none == [err |-> "", ids |-> <<>>, lines |-> <<>>]
        failed == [none EXCEPT !.err = "AssertionError"]
    IN  IF gate = "Measure" THEN
            IF cmd.tags = <<>> THEN failed
            ELSE [none EXCEPT !.ids = <<cmd.tags[1]>>]
        ELSE IF gate = NOT /\ cc = 1 THEN
            [none EXCEPT !.lines = <<Line("", "CNOT", <<cmd.controls[1], qb>>)>>]
        ELSE IF gate = NOT /\ cc = 2 THEN
            [none EXCEPT !.lines =
                <<Line("", "CCNOT", <<cmd.controls[1], cmd.controls[2], qb>>)>>]
        ELSE IF gate \in Rotations THEN
            IF ~(cc < 2) THEN failed
            ELSE IF cc = 1 THEN
                [none EXCEPT !.lines =
                    <<Line("CONTROLLED", RotationStr(gate), <<cmd.controls[1], qb>>)>>]
            ELSE [none EXCEPT !.lines = <<Line("", RotationStr(gate), <<qb>>)>>]
        ELSE
            IF ~(cc < 2) THEN failed
            ELSE IF cc = 1 THEN
                [none EXCEPT !.lines =
                    <<Line("CONTROLLED", gate_names(gate), <<cmd.controls[1], qb>>)>>]
            ELSE [none EXCEPT !.lines = <<Line("", gate_names(gate), <<qb>>)>>]

\* lines 124-128: the start of a new circuit discards the previous one
\* mutant: line 125 left out
ClearedTable_Kept(c, table) == table

ClearedTable(c, table) == IF c THEN <<>> ELSE table
ClearedQuil(c, text) == IF c THEN <<>> ELSE text

\* mutant: line 128 left out
ClearedAllocated_Kept(c, qs) == qs

ClearedAllocated(c, qs) == IF c THEN {} ELSE qs

Store(cmd) ==
    LET quil0 == ClearedQuil(clear, quil)
        alloc0 == ClearedAllocated(clear, allocated_qubits)
        tr == Translate(cmd)
    IN  /\ op' = "store"
        /\ probabilities' = ClearedTable(clear, probabilities)
        /\ clear' = FALSE
        /\ IF cmd.gate = "Allocate" THEN
                /\ allocated_qubits' = alloc0 \cup {cmd.qubit}
                /\ quil' = quil0
                /\ measured_ids' = measured_ids
                /\ err' = ""
           ELSE IF cmd.gate = "Deallocate" THEN
                /\ allocated_qubits' = alloc0
                /\ quil' = quil0
                /\ measured_ids' = measured_ids
                /\ err' = ""
           ELSE
                /\ allocated_qubits' = alloc0
                /\ quil' = quil0 \o tr.lines
                /\ measured_ids' = measured_ids \o tr.ids
                /\ err' = tr.err
        /\ net' = <<>> /\ delivered' = <<>> /\ ret' = NoRet
        /\ idle' = FALSE
        /\ accepted' = (IF cmd.gate = "Measure" THEN accepted \o tr.ids ELSE accepted)
        /\ stored' = stored + 1
        /\ UNCHANGED <<device, num_runs, retrieve_execution, mapping, ran, flushes>>

(***************************************************************************)
(* _logical_to_physical                                                    *)
(***************************************************************************)
\* mutant: the check of line 194 left out, an unknown id placed at 0
logical_to_physical_Unchecked(m, qb_id) ==
    [err |-> "", val |-> IF qb_id \in DOMAIN m THEN m[qb_id] ELSE 0]

logical_to_physical(m, qb_id) ==
    IF qb_id \notin DOMAIN m
    THEN [err |-> "RuntimeError: Unknown qubit id", val |-> 0]
    ELSE [err |-> "", val |-> m[qb_id]]

(***************************************************************************)
(* get_probabilities                                                       *)
(***************************************************************************)
\* mutant: the state read in the order of the register, not at the positions
\* of its qubits
MappedState_InOrder(m, state, qureg) ==
    IF \E i \in DOMAIN qureg : qureg[i] \notin DOMAIN m
    THEN [err |-> "RuntimeError: Unknown qubit id", val |-> <<>>]
    ELSE [err |-> "", val |-> [i \in DOMAIN qureg |-> state[i]]]

\* lines 231-233: the state read at the positions of the register's qubits;
\* a position is the 0-based index of a character
MappedState(m, state, qureg) ==
    LET at(i) == logical_to_physical(m, qureg[i])
        bad == {i \in DOMAIN qureg :
                    at(i).err # "" \/ ~(at(i).val < Len(state))}
    IN  IF bad = {} THEN
            [err |-> "", val |-> [i \in DOMAIN qureg |-> state[at(i).val + 1]]]
        ELSE LET i == CHOOSE j \in bad : \A k \in bad : j <= k
             IN  [err |-> IF at(i).err # "" THEN at(i).err ELSE "IndexError",
                  val |-> <<>>]

\* lines 228-237: the loop over the table from its item i on
RECURSIVE Project(_, _, _, _, _)
Project(m, table, qureg, i, probability_dict) ==
    IF i > Len(table) THEN [err |-> "", val |-> probability_dict]
    ELSE LET ms == MappedState(m, table[i].k, qureg)
         IN  IF ms.err # "" THEN [err |-> ms.err, val |-> <<>>]
             ELSE Project(m, table, qureg, i + 1,
                          DictSet(probability_dict, ms.val, table[i].v))

\* mutant: the check of line 225 left out
NoData_Unchecked(table) == FALSE

NoData(table) == Len(table) = 0

get_probabilities(m, table, qureg) ==
    IF NoData(table)
    THEN [err |-> "RuntimeError: Please, run the circuit first!", val |-> <<>>]
    ELSE Project(m, table, qureg, 1, <<>>)

GetProbabilities(qureg) ==
    LET r == get_probabilities(mapping, probabilities, qureg)
    IN  /\ op' = "get_probabilities"
        /\ err' = r.err
        /\ ret' = (IF r.err = "" THEN [kind |-> "dict", val |-> r.val, arg |-> qureg]
                   ELSE NoRet)
        /\ net' = <<>> /\ delivered' = <<>>
        /\ UNCHANGED <<backend, mapping, history>>

(***************************************************************************)
(* _run                                                                    *)
(***************************************************************************)
MaxCredits == 5

MeasureLine(qb_loc) == Line("", "MEASURE", <<qb_loc, qb_loc>>)

\* lines 249-251: a MEASURE line for each measured id, up to the first id
\* that the mapping lacks
RECURSIVE AddMeasures(_, _, _)
AddMeasures(text, ids, m) ==
    IF ids = <<>> THEN [err |-> "", quil |-> text]
    ELSE IF Head(ids) \notin DOMAIN m THEN [err |-> "KeyError", quil |-> text]
    ELSE AddMeasures(Append(text, MeasureLine(m[Head(ids)])), Tail(ids), m)

\* mutant: the job id to retrieve not looked at
Call_AlwaysSend(text, dev, shots, job) ==
    [fn |-> "send", quil |-> text, shots |-> shots, maxCredits |-> MaxCredits,
     device |-> dev, jobid |-> NoJob]

\* lines 256-270: the call made, send(info, ...) or retrieve(..., jobid)
Call(text, dev, shots, job) ==
    IF job = NoJob
    THEN [fn |-> "send", quil |-> text, shots |-> shots, maxCredits |-> MaxCredits,
          device |-> dev, jobid |-> NoJob]
    ELSE [fn |-> "retrieve", quil |-> <<>>, shots |-> 0, maxCredits |-> 0,
          device |-> dev, jobid |-> job]

\* lines 274-280: one shot counted
CountShot(counts, combined) ==
    IF combined \notin DictKeys(counts)
    THEN DictSet(counts, combined, 1)
    ELSE DictSet(counts, combined, DictGet(counts, combined) + 1)

\* lines 272-280: the shots i to j counted in their order (the first half,
\* then the second: the evaluation stays shallow for 1024 shots)
RECURSIVE Counts(_, _, _, _)
Counts(res, i, j, counts) ==
    IF i > j THEN counts
    ELSE IF i = j THEN CountShot(counts, res[i])
    ELSE LET mid == (i + j) \div 2
             first == Counts(res, i, mid, counts)
         IN  IF Len(first) > 0 THEN Counts(res, mid + 1, j, first) ELSE first

\* mutant: a state already selected is replaced by a later one
Selects_Again(c_sum, t, measured) == c_sum >= t

\* line 292: p_sum >= P and measured == "", for P in ((t-1)/shots, t/shots]
Selects(c_sum, t, measured) == c_sum >= t /\ measured = <<>>

\* lines 284-295: the walk over the counted states, from item i on; c_sum is
\* p_sum * shots
RECURSIVE Walk(_, _, _, _, _, _, _)
Walk(counts, i, shots, t, c_sum, measured, table) ==
    IF i > Len(counts) THEN [measured |-> measured, table |-> table]
    ELSE LET probability == <<counts[i].v, shots>>
             state == Reversed(counts[i].k)
             sum == c_sum + counts[i].v
         IN  Walk(counts, i + 1, shots, t, sum,
                  IF Selects(sum, t, measured) THEN state ELSE measured,
                  DictSet(table, state, probability))

\* mutant: the bit read at the logical id, not at its physical position
RECURSIVE Register_AtLogicalId(_, _, _, _)
Register_AtLogicalId(ids, measured, m, out) ==
    IF ids = <<>> THEN [err |-> "", out |-> out]
    ELSE Register_AtLogicalId(Tail(ids), measured, m,
                              Append(out, <<Head(ids), measured[Head(ids) + 1]>>))

\* lines 305-308: the results registered, up to the first failure
RECURSIVE Register(_, _, _, _)
Register(ids, measured, m, out) ==
    IF ids = <<>> THEN [err |-> "", out |-> out]
    ELSE LET location == logical_to_physical(m, Head(ids))
         IN  IF location.err # "" THEN [err |-> location.err, out |-> out]
             ELSE IF ~(location.val < Len(measured))
             THEN [err |-> "IndexError", out |-> out]
             ELSE Register(Tail(ids), measured, m,
                           Append(out, <<Head(ids), measured[location.val + 1]>>))

\* _reset: what it makes of _clear and _measured_ids
ResetClear == TRUE
ResetMeasured == <<>>

\* what the flush does after a run that raised: the exception leaves receive
\* before its _reset
AfterFailure(c, ids) == [clear |-> c, measured_ids |-> ids]

\* what it does after a run that returned: receive calls _reset
AfterReturn(c, ids) == [clear |-> ResetClear, measured_ids |-> ResetMeasured]

\* the table a run writes its states into: self._probabilities as it is
RunTable(table) == table

\* mutant: a reply of None iterated as if it were an empty list of shots
Failed_NoneIterated(reply) == reply.kind = "raise"

\* lines 264-273, 310-311: the client raises, or it returns None and the
\* loop over res raises the TypeError that becomes an Exception
Failed(reply) == reply.kind # "result"

\* reply: what send / retrieve does, [kind |-> "result", res |-> shots],
\* [kind |-> "none"] (it returns None) or [kind |-> "raise"]; t: the draw
Flush(reply, t) ==
    LET am == AddMeasures(quil, measured_ids, mapping)
        call == Call(am.quil, device, num_runs, retrieve_execution)
        counts == Counts(reply.res, 1, Len(reply.res), <<>>)
        walk == Walk(counts, 1, num_runs, t, 0, <<>>, RunTable(probabilities))
        reg == Register(measured_ids, walk.measured, mapping, <<>>)
        fail == AfterFailure(clear, measured_ids)
        done == AfterReturn(clear, measured_ids)
    IN  /\ flushes' = flushes + 1
        /\ op' = "flush"
        /\ ret' = NoRet
        /\ idle' = TRUE
        /\ accepted' = <<>>
        /\ UNCHANGED <<allocated_qubits, device, num_runs, retrieve_execution, mapping, stored>>
        /\ IF quil = <<>> THEN
                \* lines 246-247
                /\ err' = "" /\ net' = <<>> /\ delivered' = <<>>
                /\ clear' = done.clear /\ measured_ids' = done.measured_ids
                /\ UNCHANGED <<quil, probabilities, ran>>
           ELSE IF am.err # "" \/ allocated_qubits = {} THEN
                \* line 250 or line 253
                /\ err' = (IF am.err # "" THEN am.err ELSE "ValueError")
                /\ net' = <<>> /\ delivered' = <<>>
                /\ quil' = am.quil
                /\ clear' = fail.clear /\ measured_ids' = fail.measured_ids
                /\ UNCHANGED <<probabilities, ran>>
           ELSE IF Failed(reply) THEN
                \* the client raises, or returns None and line 273 raises the
                \* TypeError that line 311 turns into an Exception
                /\ err' = (IF reply.kind = "none" THEN "Exception: Failed to run the circuit"
                           ELSE "DeviceOfflineError")
                /\ net' = <<call>> /\ delivered' = <<>>
                /\ quil' = am.quil
                /\ clear' = fail.clear /\ measured_ids' = fail.measured_ids
                /\ UNCHANGED <<probabilities, ran>>
           ELSE IF reg.err # "" THEN
                \* line 306 or 307
                /\ err' = reg.err
                /\ net' = <<call>> /\ delivered' = reg.out
                /\ quil' = am.quil
                /\ probabilities' = walk.table
                /\ clear' = fail.clear /\ measured_ids' = fail.measured_ids
                /\ UNCHANGED ran
           ELSE
                /\ err' = ""
                /\ net' = <<call>> /\ delivered' = reg.out
                /\ quil' = am.quil
                /\ probabilities' = walk.table
                /\ clear' = done.clear /\ measured_ids' = done.measured_ids
                /\ ran' = TRUE

(***************************************************************************)
(* The command stream and the environment.                                 *)
(***************************************************************************)
\* the gate commands of the stream
StreamCommands ==
    {Cmd(g, <<>>, 0, <<>>) : g \in {"Allocate", "Deallocate", "X"}}
    \cup {Cmd("Measure", <<>>, q, <<q>>) : q \in Qubits}
    \cup {Cmd("Measure", <<>>, 0, <<>>)}

\* a shot is the list of the bits read, one for each position
States == [1 .. MaxQubit + 1 -> Bits]
Replies(shots) ==
    {[kind |-> "result", res |-> r] : r \in [1 .. shots -> States]}
    \cup {[kind |-> "none", res |-> <<>>], [kind |-> "raise", res |-> <<>>]}

\* the values of the draw P told apart by line 292: t = ceiling(P * shots)
Draws(shots) == 0 .. shots

\* the registers over the qubits Q: qubits in any order, none twice
RegistersOf(Q) ==
    {r \in UNION {[1 .. n -> Q] : n \in 0 .. Cardinality(Q)} :
        \A i, j \in DOMAIN r : i # j => r[i] # r[j]}
Registers == RegistersOf(Qubits)

\* the bounds of the stream
MayStore(cmd) ==
    /\ stored < MaxStored
    /\ Len(ClearedQuil(clear, quil)) < MaxLines
    /\ cmd.gate = "Measure" => Len(measured_ids) < MaxMeasured
MayFlush ==
    /\ flushes < MaxFlushes
    /\ Len(quil) + Len(measured_ids) <= MaxLines

Next ==
    \/ \E cmd \in StreamCommands : MayStore(cmd) /\ Store(cmd) /\ UNCHANGED outside
    \/ \E reply \in Replies(num_runs), t \in Draws(num_runs) :
           MayFlush /\ Flush(reply, t) /\ UNCHANGED outside
    \/ \E qureg \in Registers : GetProbabilities(qureg) /\ UNCHANGED outside

Spec == Init /\ [][Next]_vars

(***************************************************************************)
(* The life of the table: one qubit is allocated, flipped and measured,    *)
(* the first shot of a reply reads one bit at every position and the later *)
(* shots another or the same,                                              *)
(* and the registers asked about are the empty one, the qubit 0 and the    *)
(* last qubit with the qubit 0, in both orders.                            *)
(***************************************************************************)
LifeCommands ==
    {Cmd(g, <<>>, 0, <<>>) : g \in {"Allocate", "X"}}
    \cup {Cmd("Measure", <<>>, 0, <<0>>)}
LifeReplies(shots) ==
    {[kind |-> "result",
      res |-> [i \in 1 .. shots |-> [p \in 1 .. MaxQubit + 1 |-> IF i = 1 THEN a ELSE b]]] :
        a \in Bits, b \in Bits}
    \cup {[kind |-> "none", res |-> <<>>], [kind |-> "raise", res |-> <<>>]}
LifeDraws(shots) == {0, shots}
LifeRegisters == {<<>>, <<0>>, <<MaxQubit, 0>>, <<0, MaxQubit>>}

NextLife ==
    \/ \E cmd \in LifeCommands : MayStore(cmd) /\ Store(cmd) /\ UNCHANGED outside
    \/ \E reply \in LifeReplies(num_runs), t \in LifeDraws(num_runs) :
           MayFlush /\ Flush(reply, t) /\ UNCHANGED outside
    \/ \E qureg \in LifeRegisters : GetProbabilities(qureg) /\ UNCHANGED outside

SpecLife == Init /\ [][NextLife]_vars

(***************************************************************************)
(* The availability predicate asked about every gate, with 0 to            *)
(* MaxControls control qubits.                                             *)
(***************************************************************************)
AvailCommands ==
    {Cmd(g, [i \in 1 .. n |-> q + i], q, IF g = "Measure" THEN <<q>> ELSE <<>>) :
        g \in Gates, n \in 0 .. MaxControls, q \in Qubits}

NextAvail == \E cmd \in AvailCommands : IsAvailable(cmd) /\ UNCHANGED outside

SpecAvail == Init /\ [][NextAvail]_vars

(***************************************************************************)
(* The commands that the availability predicate admits, stored: a caller   *)
(* asks is_available before it sends a command on.                         *)
(***************************************************************************)
AdmitMaxStored == 1

NextAdmit ==
    \E cmd \in AvailCommands :
        /\ is_available(cmd)
        /\ stored < AdmitMaxStored
        /\ Store(cmd)
        /\ UNCHANGED outside

SpecAdmit == Init /\ [][NextAdmit]_vars

(***************************************************************************)
(* The round trip of _rigetti_test.py: 1024 shots that count to the        *)
(* histogram of the test, three logical qubits placed one to one, one run. *)
(***************************************************************************)
RTMaxStored == 4

RTQubits == 0 .. 2
RTHistogram ==
    <<[k |-> <<0, 0, 1, 1, 1>>, v |-> 396],
      [k |-> <<0, 0, 1, 0, 1>>, v |-> 27],
      [k |-> <<0, 0, 0, 0, 0>>, v |-> 601]>>

\* the shots of a histogram, state after state
RECURSIVE Shots(_, _)
Shots(h, i) ==
    IF i > Len(h) THEN <<>> ELSE [j \in 1 .. h[i].v |-> h[i].k] \o Shots(h, i + 1)

RTReplies ==
    {[kind |-> "result", res |-> Shots(RTHistogram, 1)],
     [kind |-> "result", res |-> Shots(Reversed(RTHistogram), 1)],
     [kind |-> "none", res |-> <<>>]}
RTDraws == {0, 424, DefaultNumRuns}

RTCommands ==
    {Cmd("Allocate", <<>>, 0, <<>>), Cmd("H", <<>>, 0, <<>>)}
    \cup {Cmd("Measure", <<>>, q, <<q>>) : q \in RTQubits}

InitRT ==
    /\ Construct(FALSE, DefaultNumRuns, RIGETTI_DEVICES[1], NoJob)
    /\ mapping = [q \in RTQubits |-> q]
    /\ Fresh

NextRT ==
    \/ \E cmd \in RTCommands : stored < RTMaxStored /\ Store(cmd) /\ UNCHANGED outside
    \/ \E reply \in RTReplies, t \in RTDraws :
           flushes = 0 /\ Flush(reply, t) /\ UNCHANGED outside
    \/ \E qureg \in RegistersOf(RTQubits) : GetProbabilities(qureg) /\ UNCHANGED outside

SpecRT == InitRT /\ [][NextRT]_vars

(***************************************************************************)
(* send and retrieve of _rigetti_http_client, the module imported at line  *)
(* 41.  A call goes through the positions CHECK_DEVICE, SUBMIT, POLL and   *)
(* WAIT and ends in DONE, OFFLINE, FAILED or TIMEOUT; log holds the        *)
(* requests it made with their answers, in order.                          *)
(***************************************************************************)
MaxPolls == 3

JobIds == {"123e"}
Terminal == {"DONE", "OFFLINE", "FAILED", "TIMEOUT"}
Req(name, answer) == [req |-> name, ans |-> answer]
StatusAnswer(online) == IF online THEN "online" ELSE "offline"

\* send(info, device, ...): the call starts with the check of the device
send(dev) ==
    [ClientIdle EXCEPT !.fn = "send", !.phase = "CHECK_DEVICE", !.device = dev]

\* retrieve(device, ..., jobid): the call starts polling the job
retrieve(dev, jobid) ==
    [ClientIdle EXCEPT !.fn = "retrieve", !.phase = "POLL", !.device = dev,
                       !.jobid = jobid]

DeviceOfflineError(c) ==
    [kind |-> "DeviceOfflineError", device |-> c.device, jobid |-> c.jobid]
ClientError(c) == [kind |-> "ClientError", device |-> c.device, jobid |-> c.jobid]
TimeoutError(c) == [kind |-> "Timeout", device |-> c.device, jobid |-> c.jobid]

\* mutant: the answer of the device not looked at
checkDevice_Unread(c, online) ==
    [c EXCEPT !.log = Append(@, Req("status", StatusAnswer(online))),
              !.phase = "SUBMIT"]

\* the check of the device before the submission
checkDevice(c, online) ==
    [c EXCEPT !.log = Append(@, Req("status", StatusAnswer(online))),
              !.phase = IF online THEN "SUBMIT" ELSE "OFFLINE",
              !.error = IF online THEN @ ELSE DeviceOfflineError(c)]

\* the submission: one request, answered by the id of the job, by a
\* transport failure or by a response of another shape
submit(c, answer) ==
    IF answer.kind = "job"
    THEN [c EXCEPT !.log = Append(@, Req("submit", "job")),
                   !.phase = "POLL", !.jobid = answer.id]
    ELSE [c EXCEPT !.log = Append(@, Req("submit", answer.kind)),
                   !.phase = "FAILED", !.error = ClientError(c)]

\* mutant: the result of a ready job decoded twice
poll_DecodedTwice(c, answer) ==
    IF answer.kind = "ready"
    THEN [c EXCEPT !.log = Append(@, Req("poll", "ready")), !.polls = @ + 1,
                   !.decodes = @ + 2, !.result = answer.res, !.phase = "DONE"]
    ELSE [c EXCEPT !.log = Append(@, Req("poll", "notready")), !.polls = @ + 1,
                   !.phase = "WAIT"]

\* one poll of the job: its result is decoded, or it is not ready
poll(c, answer) ==
    IF answer.kind = "ready"
    THEN [c EXCEPT !.log = Append(@, Req("poll", "ready")), !.polls = @ + 1,
                   !.decodes = @ + 1, !.result = answer.res, !.phase = "DONE"]
    ELSE [c EXCEPT !.log = Append(@, Req("poll", "notready")), !.polls = @ + 1,
                   !.phase = "WAIT"]

\* the sleep, and the device's answer when its status is asked
Slept(c, check, online) ==
    LET slept == [c EXCEPT !.log = Append(@, Req("sleep", "")), !.sleeps = @ + 1]
    IN  IF check
        THEN [slept EXCEPT !.log = Append(@, Req("status", StatusAnswer(online)))]
        ELSE slept

\* mutant: a device found offline does not end the polling
wait_OfflineIgnored(c, check, online) ==
    IF c.polls >= MaxPolls
    THEN [Slept(c, check, online) EXCEPT !.phase = "TIMEOUT", !.error = TimeoutError(c)]
    ELSE [Slept(c, check, online) EXCEPT !.phase = "POLL"]

\* mutant: no limit on the polls
wait_Unlimited(c, check, online) ==
    IF check /\ ~online
    THEN [Slept(c, check, online) EXCEPT !.phase = "OFFLINE",
                                         !.error = DeviceOfflineError(c)]
    ELSE [Slept(c, check, online) EXCEPT !.phase = "POLL"]

\* mutant: the error of the timeout does not name the job
wait_JobUnnamed(c, check, online) ==
    IF check /\ ~online
    THEN [Slept(c, check, online) EXCEPT !.phase = "OFFLINE",
                                         !.error = DeviceOfflineError(c)]
    ELSE IF c.polls >= MaxPolls
    THEN [Slept(c, check, online) EXCEPT !.phase = "TIMEOUT",
                                         !.error = [TimeoutError(c) EXCEPT !.jobid = NoJob]]
    ELSE [Slept(c, check, online) EXCEPT !.phase = "POLL"]

\* after a poll that found the job not ready: the sleep, then the end of
\* the call when the device is found offline or the polls are used up
wait(c, check, online) ==
    IF check /\ ~online
    THEN [Slept(c, check, online) EXCEPT !.phase = "OFFLINE",
                                         !.error = DeviceOfflineError(c)]
    ELSE IF c.polls >= MaxPolls
    THEN [Slept(c, check, online) EXCEPT !.phase = "TIMEOUT", !.error = TimeoutError(c)]
    ELSE [Slept(c, check, online) EXCEPT !.phase = "POLL"]

\* the answers of the service
SubmitAnswers ==
    {[kind |-> "job", id |-> j] : j \in JobIds}
    \cup {[kind |-> "transport", id |-> NoJob], [kind |-> "shape", id |-> NoJob]}
Results(shots) == {r.res : r \in {x \in LifeReplies(shots) : x.kind = "result"}}
PollAnswers(shots) ==
    {[kind |-> "ready", res |-> r] : r \in Results(shots)}
    \cup {[kind |-> "notready", res |-> <<>>]}

\* what the backend holds while the client runs
engine == <<backend, mapping, op, err, net, delivered, ret, history, init_args, input>>

CallSend ==
    /\ client.phase \in Terminal \cup {"IDLE"}
    /\ \E dev \in {"QVM", RIGETTI_DEVICES[1]} : client' = send(dev)
    /\ UNCHANGED engine
CallRetrieve ==
    /\ client.phase \in Terminal \cup {"IDLE"}
    /\ \E dev \in {"QVM", RIGETTI_DEVICES[1]}, j \in JobIds : client' = retrieve(dev, j)
    /\ UNCHANGED engine
CheckDevice ==
    /\ client.phase = "CHECK_DEVICE"
    /\ \E online \in BOOLEAN : client' = checkDevice(client, online)
    /\ UNCHANGED engine
Submit ==
    /\ client.phase = "SUBMIT"
    /\ \E answer \in SubmitAnswers : client' = submit(client, answer)
    /\ UNCHANGED engine
Poll ==
    /\ client.phase = "POLL"
    /\ \E answer \in PollAnswers(num_runs) : client' = poll(client, answer)
    /\ UNCHANGED engine
Wait ==
    /\ client.phase = "WAIT"
    /\ \E check \in BOOLEAN, online \in BOOLEAN : client' = wait(client, check, online)
    /\ UNCHANGED engine

NextClient == CallSend \/ CallRetrieve \/ CheckDevice \/ Submit \/ Poll \/ Wait

SpecClient == Init /\ [][NextClient]_vars

(***************************************************************************)
(* The backend with the client: a flush that reaches line 262 runs the     *)
(* call of send or retrieve to its end against a service e, which says     *)
(* whether the device is online, how a submission is answered, how many    *)
(* polls find the job not ready and what its result is.                    *)
(***************************************************************************)
AnswerStep(c, e) ==
    CASE c.phase = "CHECK_DEVICE" -> checkDevice(c, e.online)
      [] c.phase = "SUBMIT" -> submit(c, e.submit)
      [] c.phase = "POLL" ->
            poll(c, IF c.polls >= e.ready_after
                    THEN [kind |-> "ready", res |-> e.res]
                    ELSE [kind |-> "notready", res |-> <<>>])
      [] c.phase = "WAIT" -> wait(c, TRUE, e.online)

RECURSIVE RunClient(_, _)
RunClient(c, e) == IF c.phase \in Terminal THEN c ELSE RunClient(AnswerStep(c, e), e)

StartCall(call) ==
    IF call.fn = "send" THEN send(call.device) ELSE retrieve(call.device, call.jobid)

\* what the call gives the backend: the result, None after an error that
\* send caught, or the exception it raised
ReplyOf(c) ==
    CASE c.phase = "DONE" -> [kind |-> "result", res |-> c.result]
      [] c.phase = "FAILED" -> [kind |-> "none", res |-> <<>>]
      [] OTHER -> [kind |-> "raise", res |-> <<>>]

FlushJob(e, t) ==
    LET am == AddMeasures(quil, measured_ids, mapping)
        call == Call(am.quil, device, num_runs, retrieve_execution)
        c == RunClient(StartCall(call), e)
    IN  /\ Flush(ReplyOf(c), t)
        /\ client' = (IF net' = <<>> THEN client ELSE c)
        /\ UNCHANGED <<init_args, input>>

\* the services: the job is ready at the second poll or at no poll, and all
\* the shots of its result read the same state (one such result where the
\* call never returns it)
JobEnvs(shots) ==
    {e \in [online : BOOLEAN, submit : SubmitAnswers, ready_after : {1, MaxPolls},
            res : {r \in Results(shots) : \A i \in DOMAIN r : r[i] = r[1]}] :
        (e.submit.kind # "job" \/ e.ready_after = MaxPolls) => e.res[1][1] = 0}

\* the commands of the life of the table, and the measurement of the last
\* qubit, which a mapping may lack
JobCommands == LifeCommands \cup {Cmd("Measure", <<>>, MaxQubit, <<MaxQubit>>)}

InitJob ==
    /\ \E use_hardware \in BOOLEAN, job \in {NoJob} \cup JobIds,
          dev \in {RIGETTI_DEVICES[i] : i \in DOMAIN RIGETTI_DEVICES} :
            Construct(use_hardware, NumRuns, dev, job)
    /\ mapping \in {m \in Mappings : m[0] = 0}
    /\ Fresh

NextJob ==
    \/ \E cmd \in JobCommands : MayStore(cmd) /\ Store(cmd) /\ UNCHANGED outside
    \/ \E e \in JobEnvs(num_runs), t \in LifeDraws(num_runs) : MayFlush /\ FlushJob(e, t)

SpecJob == InitJob /\ [][NextJob]_vars

(***************************************************************************)
(* The first run, with its inputs on record: qubit 0 is allocated, flipped, *)
(* any qubit is measured, and a shot reads 0 everywhere, 1 everywhere or   *)
(* 1 at the first position only.                                           *)
(***************************************************************************)
\* receive hands cmd to _store
StoreIn(cmd) ==
    /\ Store(cmd)
    /\ input' = [cmd |-> <<cmd>>, res |-> <<>>, draw |-> <<>>]
    /\ UNCHANGED <<init_args, client>>

\* lines 262-283: res is bound when the call returns, and P is drawn once
\* when the loop over res has ended
FlushIn(reply, t) ==
    /\ Flush(reply, t)
    /\ input' = (IF net' # <<>> /\ ~Failed(reply)
                 THEN [cmd |-> <<>>, res |-> reply.res, draw |-> <<t>>]
                 ELSE NoInput)
    /\ UNCHANGED <<init_args, client>>

RunCommands ==
    {Cmd(g, <<>>, 0, <<>>) : g \in {"Allocate", "X"}}
    \cup {Cmd("Measure", <<>>, q, <<q>>) : q \in Qubits}
RunStates ==
    {[p \in 1 .. MaxQubit + 1 |-> b] : b \in Bits}
    \cup {[p \in 1 .. MaxQubit + 1 |-> IF p = 1 THEN 1 ELSE 0]}
RunReplies(shots) ==
    {[kind |-> "result", res |-> r] : r \in [1 .. shots -> RunStates]}

\* the stream up to its first flush
NextRun ==
    \/ \E cmd \in RunCommands : flushes = 0 /\ MayStore(cmd) /\ StoreIn(cmd)
    \/ \E reply \in RunReplies(num_runs), t \in Draws(num_runs) :
           flushes = 0 /\ MayFlush /\ FlushIn(reply, t)

SpecRun == Init /\ [][NextRun]_vars

(***************************************************************************)
(* The stream with its commands on record.                                 *)
(***************************************************************************)
NextStream ==
    \/ \E cmd \in StreamCommands : MayStore(cmd) /\ StoreIn(cmd)
    \/ \E reply \in LifeReplies(num_runs), t \in LifeDraws(num_runs) :
           MayFlush /\ FlushIn(reply, t)

SpecStream == Init /\ [][NextStream]_vars

(***************************************************************************)
(* The commands on record: a stream with one flush, with any               *)
(* other gate on qubit 0, under any number of controls, as its last one.   *)
(***************************************************************************)
EmitCommands == {cmd \in AvailCommands : cmd.qubit = 0} \ StreamCommands

\* the stream goes on after a command of the stream
Open == IF input.cmd = <<>> THEN TRUE ELSE input.cmd[1] \in StreamCommands

NextEmit ==
    \/ \E cmd \in StreamCommands : Open /\ MayStore(cmd) /\ StoreIn(cmd)
    \/ \E reply \in LifeReplies(num_runs), t \in LifeDraws(num_runs) :
           Open /\ flushes = 0 /\ MayFlush /\ FlushIn(reply, t)
    \/ \E cmd \in EmitCommands : Open /\ StoreIn(cmd)

SpecEmit == Init /\ [][NextEmit]_vars

(***************************************************************************)
(* Properties.                                                             *)
(***************************************************************************)
FlushStep == flushes' # flushes
StoreStep == stored' # stored
QueryStep == op' = "get_probabilities" /\ ~FlushStep /\ ~StoreStep
NoDataError == "RuntimeError: Please, run the circuit first!"

\* the last handler was a flush that got a result and ended without error
RunSucceeded == op = "flush" /\ err = "" /\ net # <<>>

\* C1: a flush that arrives when no command has been stored since
\* construction, or since a previous flush that ran the circuit, makes no
\* call of send or retrieve.
C1_IdleFlushMakesNoCall ==
    [][(idle /\ (flushes = 0 \/ RunSucceeded) /\ FlushStep) => net' = <<>>]_vars

\* C2: the first command stored after a flush whose call of send or
\* retrieve failed starts from an empty text, an empty list of measured ids
\* and an empty allocated set: after it they hold at most what it added.
C2_ResetAfterFailedFlush ==
    [][(op = "flush" /\ err # "" /\ net # <<>> /\ StoreStep)
        => Len(quil') + Len(measured_ids') + Cardinality(allocated_qubits') <= 1]_vars

\* C3: in every program handed to send, every MEASURE line comes after every
\* other line.
MeasuresLast(text) ==
    \A i, j \in DOMAIN text :
        (i < j /\ text[i].name = "MEASURE") => text[j].name = "MEASURE"
C3_MeasuresLast == \A i \in DOMAIN net : MeasuresLast(net[i].quil)

\* C4 as stated: is_available(cmd) is true exactly for X, Y, Z, T, Tdag, S,
\* Sdag, a rotation or phase gate, Allocate, Deallocate, Measure, and NOT
\* with at most 2 controls.
StatedGate(cmd) ==
    \/ cmd.gate \in {"X", "Y", "Z", "T", "Tdag", "S", "Sdag"}
    \/ cmd.gate \in Rotations
    \/ cmd.gate \in {"Allocate", "Deallocate", "Measure"}
    \/ cmd.gate = NOT /\ get_control_count(cmd) <= 2
C5_ManyControlsRefused ==
    (op = "is_available" /\ ret.arg.gate = NOT /\ get_control_count(ret.arg) > 2)
        => ~ret.val

\* C6: after a flush that ends without error, one bit has been registered
\* for each Measure command stored in that circuit, under its logical id and
\* in the order of the commands.
C6_OneBitPerMeasure ==
    [][(FlushStep /\ err' = "")
        => [i \in DOMAIN delivered' |-> delivered'[i][1]] = accepted]_vars

\* C7: while no run has completed since construction, get_probabilities
\* raises the no-data error for every register and changes nothing.
C7_NoDataBeforeRun ==
    [][(QueryStep /\ ~ran)
        => (err' = NoDataError /\ ret' = NoRet /\ UNCHANGED <<backend, mapping>>)]_vars
C7_Witness ==
    /\ op = "get_probabilities" /\ err = NoDataError /\ ~ran
    /\ flushes > 0 /\ quil # <<>> /\ measured_ids # <<>>

\* C8 as stated: storing a command of the following circuit does not discard
\* the table that a successful run produced.
C8_Original == [][(RunSucceeded /\ StoreStep) => probabilities' = probabilities]_vars

\* C8 amended: the table of a successful run stays as it is through calls of
\* get_probabilities, which return its projection, and the first command
\* stored after the run discards it, so that get_probabilities raises the
\* no-data error from then until a later run.
C8_TableUntilNextCommand ==
    [][/\ (QueryStep /\ probabilities # <<>>)
            => /\ probabilities' = probabilities
               /\ err' = "" => ret'.val = Project(mapping, probabilities, ret'.arg, 1, <<>>).val
       /\ (RunSucceeded /\ StoreStep) => probabilities' = <<>>
       /\ (QueryStep /\ probabilities = <<>>) => err' = NoDataError]_vars
C8_Witness ==
    /\ op = "store" /\ ran /\ flushes = 1 /\ stored = 3 /\ probabilities = <<>>

\* C9: after a run that succeeded the probabilities of the table sum to 1,
\* and the values get_probabilities returns for a register of mapped qubits
\* sum to at most 1.
RECURSIVE SumCounts(_, _)
SumCounts(d, i) == IF i > Len(d) THEN 0 ELSE d[i].v[1] + SumCounts(d, i + 1)
C9_ProbabilitiesSumToOne ==
    RunSucceeded =>
        /\ SumCounts(probabilities, 1) = num_runs
        /\ \A qureg \in RegistersOf(DOMAIN mapping) :
               SumCounts(get_probabilities(mapping, probabilities, qureg).val, 1)
                   <= num_runs

\* C10 as stated: with the histogram {00111: 396, 00101: 27, 00000: 601} of
\* 1024 shots and q0, q1, q2 at the positions 0, 1, 2, get_probabilities of
\* [q2, q0, q1] returns 111 with 396/1024, 101 with 27/1024 and 000 with
\* 601/1024.
Returned(key, count) ==
    key \in DictKeys(ret.val) /\ DictGet(ret.val, key) = <<count, DefaultNumRuns>>
HistogramStored ==
    /\ Len(probabilities) = Len(RTHistogram)
    /\ \A i \in DOMAIN RTHistogram :
        /\ Reversed(RTHistogram[i].k) \in DictKeys(probabilities)
        /\ DictGet(probabilities, Reversed(RTHistogram[i].k))
               = <<RTHistogram[i].v, DefaultNumRuns>>
RoundTripQuery ==
    /\ op = "get_probabilities" /\ err = "" /\ ret.arg = <<2, 0, 1>>
    /\ HistogramStored /\ mapping = [q \in RTQubits |-> q]
C10_Original ==
    RoundTripQuery =>
        /\ Returned(<<1, 1, 1>>, 396)
        /\ Returned(<<1, 0, 1>>, 27)
        /\ Returned(<<0, 0, 0>>, 601)

\* C10 amended: under the same conditions get_probabilities of [q2, q0, q1]
\* returns exactly 111 with 396/1024, 110 with 27/1024 and 000 with 601/1024:
\* each reported string is reversed and then read at the positions 2, 0, 1.
C10_RoundTrip ==
    RoundTripQuery =>
        /\ Returned(<<1, 1, 1>>, 396)
        /\ Returned(<<1, 1, 0>>, 27)
        /\ Returned(<<0, 0, 0>>, 601)
        /\ Len(ret.val) = 3
C10_Witness == RoundTripQuery /\ ran /\ measured_ids = <<>> /\ Len(delivered) = 0

\* C11: once a run has filled the table, a call of get_probabilities succeeds
\* only for a register whose qubits are all in the mapping; for any other
\* register it raises the unknown-qubit error of _logical_to_physical,
\* whatever was asked before, and it never changes the table or any other
\* field.
UnknownQubitError == "RuntimeError: Unknown qubit id"
C11_UnknownQubitRaises ==
    [][(QueryStep /\ probabilities # <<>>)
        => /\ err' = "" => \A i \in DOMAIN ret'.arg : ret'.arg[i] \in DOMAIN mapping
           /\ err' # "" => err' = UnknownQubitError
           /\ UNCHANGED <<backend, mapping>>]_vars
C11_Witness ==
    /\ op = "get_probabilities" /\ err = UnknownQubitError
    /\ ran /\ probabilities # <<>> /\ 0 \in DOMAIN mapping

\* the requests of the call that got the answer
Answered(name, answer) == {i \in DOMAIN client.log : client.log[i] = Req(name, answer)}
Asked(name) == {i \in DOMAIN client.log : client.log[i].req = name}

\* C12: when the check that send makes before the submission finds the
\* device offline, the call ends in OFFLINE with the DeviceOfflineError; that
\* check is its only request: nothing is submitted and nothing is polled.
C12_OfflineBeforeSubmit ==
    (client.fn = "send" /\ 1 \in Answered("status", "offline"))
        => /\ client.phase = "OFFLINE"
           /\ client.error.kind = "DeviceOfflineError"
           /\ Len(client.log) = 1
           /\ Asked("submit") = {} /\ Asked("poll") = {} /\ client.polls = 0
C12_Witness ==
    /\ client.fn = "send" /\ client.phase = "OFFLINE" /\ client.polls = 0
    /\ client.log = <<Req("status", "offline")>>

\* C13: a status check answered offline is the last request of its call,
\* which ends in OFFLINE with the DeviceOfflineError naming the device; this
\* holds during polling too, where the poll before it found the job not
\* ready.
C13_OfflineEndsPolling ==
    \A i \in Answered("status", "offline") :
        /\ i = Len(client.log)
        /\ client.phase = "OFFLINE"
        /\ client.error.kind = "DeviceOfflineError"
        /\ client.error.device = client.device
        /\ client.polls > 0 => client.log[i - 2] = Req("poll", "notready")
C13_Witness ==
    /\ client.phase = "OFFLINE" /\ client.polls = 2
    /\ client.log[Len(client.log)] = Req("status", "offline")
    /\ Answered("status", "online") # {}

\* C14: a call whose polls were answered not ready n times and then ready
\* ends in DONE with the decoded result, after exactly n sleeps and one
\* decode; the ready poll is its last request.
C14_SleepsAndDecode ==
    \A i \in Answered("poll", "ready") :
        /\ i = Len(client.log)
        /\ client.phase = "DONE"
        /\ client.sleeps = Cardinality(Answered("poll", "notready"))
        /\ client.polls = client.sleeps + 1
        /\ client.decodes = 1
        /\ client.result \in Results(num_runs)
C14_Witness ==
    /\ client.phase = "DONE" /\ client.sleeps = 2 /\ client.decodes = 1
    /\ Answered("status", "offline") = {}

\* C15 as stated: after a poll that found the job not ready the call polls
\* again unless the device is found offline; it never gives up by itself.
C15_Original ==
    [][(client.phase = "WAIT" /\ client'.phase # "WAIT")
        => client'.phase \in {"POLL", "OFFLINE"}]_vars

\* C15 amended: after a poll that found the job not ready the call polls
\* again, ends in OFFLINE when the device is found offline, or gives up with
\* an error that names the job; it gives up only when MaxPolls polls have
\* found the job not ready, and it never polls more than that.
C15_GivesUpAtLimit ==
    [][(client.phase = "WAIT" /\ client'.phase # "WAIT")
        => /\ client'.phase \in {"POLL", "OFFLINE", "TIMEOUT"}
           /\ client'.phase = "TIMEOUT"
                => client.polls = MaxPolls /\ client'.error = TimeoutError(client)
           /\ client'.phase = "POLL" => client.polls < MaxPolls]_vars
C15_Witness ==
    /\ client.fn = "retrieve" /\ client.phase = "TIMEOUT" /\ client.polls = MaxPolls

\* C16: a call of send that submitted a job, always found the device online
\* and never found the job ready has polled at least once when it ends, and
\* it ends by raising an error that names the submitted job.
NeverReady ==
    /\ client.fn = "send" /\ client.phase \in Terminal
    /\ Answered("submit", "job") # {}
    /\ Answered("status", "offline") = {}
    /\ Answered("poll", "ready") = {}
C16_TimeoutNamesJob ==
    /\ client.polls <= MaxPolls
    /\ NeverReady
        => /\ client.phase = "TIMEOUT"
           /\ client.polls >= 1
           /\ client.error.kind # ""
           /\ client.error.jobid \in JobIds /\ client.error.jobid = client.jobid
C16_Witness == NeverReady /\ client.phase = "TIMEOUT" /\ client.sleeps = client.polls

\* C17: a flush whose submission met a transport failure or a response of
\* another shape ends with an error raised to the caller; it made one call
\* of send, in which one submission was attempted and nothing was polled, it
\* registered no measurement result and it left the table as it was.
SubmitFailed ==
    /\ op = "flush" /\ net # <<>> /\ client.phase = "FAILED"
    /\ Answered("submit", "transport") \cup Answered("submit", "shape") # {}
C17_SubmitFailureIsFatal ==
    [][SubmitFailed'
        => /\ err' # ""
           /\ Len(net') = 1 /\ net'[1].fn = "send"
           /\ Cardinality(Asked("submit")') = 1 /\ Asked("poll")' = {}
           /\ delivered' = <<>>
           /\ probabilities' = probabilities /\ ran' = ran]_vars
C17_Witness ==
    /\ SubmitFailed /\ err # "" /\ accepted = <<>> /\ measured_ids # <<>>
    /\ Answered("submit", "transport") # {}

AllMapped(ids) == \A i \in DOMAIN ids : ids[i] \in DOMAIN mapping
C19_DeviceNamed ==
    /\ device = (IF init_args.use_hardware THEN init_args.device ELSE "QVM")
    /\ \A i \in DOMAIN net :
        /\ net[i].device = device
        /\ ~init_args.use_hardware => net[i].device = "QVM"
        /\ net[i].device \in {RIGETTI_DEVICES[k] : k \in DOMAIN RIGETTI_DEVICES}
             => init_args.use_hardware
    /\ (op = "flush" /\ net # <<>>) => client.device = device
C19_Witness ==
    /\ op = "flush" /\ net # <<>> /\ net[1].fn = "send" /\ net[1].device = "QVM"
    /\ ~init_args.use_hardware /\ init_args.device = RIGETTI_DEVICES[2]
    /\ flushes = 2

\* C20: storing a command that is_available admits raises no error.
C20_AdmittedIsTranslated == op = "store" => err = ""

\* the place of the first shot of res that reads the state s
FirstAt(res, s) == CHOOSE i \in DOMAIN res : res[i] = s /\ \A j \in 1 .. i - 1 : res[j] # s
\* the shots that read s or a state the decoder met before s
Cumulative(res, s) ==
    Cardinality({i \in DOMAIN res : FirstAt(res, res[i]) <= FirstAt(res, s)})
\* the first state, in the order the decoder met the states, whose
\* cumulative probability is at least P: Cumulative / shots >= P
SelectedState(res, shots, t) ==
    CHOOSE s \in {res[i] : i \in DOMAIN res} :
        /\ Cumulative(res, s) >= t
        /\ \A u \in {res[i] : i \in DOMAIN res} :
               Cumulative(res, u) >= t => FirstAt(res, s) <= FirstAt(res, u)

\* C21: a run draws one value P, and the bit it delivers for a measured
\* logical id is the bit, at the id's physical position, of the reversed
\* string of the first state in the decoder's insertion order whose
\* cumulative probability reaches or exceeds P (a later state that reaches
\* P as well does not replace it).
C21_FirstStateReachingP ==
    (op = "flush" /\ err = "" /\ net # <<>>) =>
        /\ Len(input.draw) = 1
        /\ \A i \in DOMAIN delivered :
               delivered[i][2] =
                   Reversed(SelectedState(input.res, num_runs, input.draw[1]))
                       [mapping[delivered[i][1]] + 1]

\* a run whose first shot reads 1 at the first position only and whose
\* last shot reads 0 everywhere, with P above the share of the first
\* state, delivers two bits
C21_Witness ==
    /\ op = "flush" /\ err = "" /\ net # <<>>
    /\ Len(delivered) = 2 /\ delivered[1][1] # delivered[2][1]
    /\ input.draw = <<NumRuns>>
    /\ input.res[1] = [p \in 1 .. MaxQubit + 1 |-> IF p = 1 THEN 1 ELSE 0]
    /\ input.res[NumRuns] = [p \in 1 .. MaxQubit + 1 |-> 0]

\* C22: a flush of a non-empty program with a measured logical id that the
\* mapping lacks fails with the unknown-qubit error of the resolver (the
\* error get_probabilities raises for such a qubit), and submits no job.
C22_UnmappedMeasureFails ==
    [][(FlushStep /\ quil # <<>> /\ ~AllMapped(measured_ids)) =>
           (err' = UnknownQubitError /\ net' = <<>>)]_vars

\* the command that the handler was given
Stored(gate) == StoreStep /\ input'.cmd[1].gate = gate

\* C23: accepting a Measure op without a logical-qubit tag fails and leaves
\* the measured-id list and the program text as they were; accepting one
\* with a tag appends the logical id to the end of the measured-id list and
\* adds no instruction to the program text.
C23_MeasureDeferred ==
    [][Stored("Measure") =>
           IF input'.cmd[1].tags = <<>>
           THEN err' # "" /\ measured_ids' = measured_ids /\ quil' = quil
           ELSE /\ err' = ""
                /\ measured_ids' = Append(measured_ids, input'.cmd[1].tags[1])
                /\ quil' = quil]_vars

\* C24, as stated: a Deallocate op leaves the program text, the allocated
\* set, the measured-id list and the probability table as they were, at any
\* point of the stream; an Allocate op adds the qubit id to the allocated
\* set and changes nothing else.
C24_Original ==
    [][/\ Stored("Deallocate") =>
              UNCHANGED <<quil, allocated_qubits, measured_ids, probabilities>>
       /\ Stored("Allocate") =>
              /\ allocated_qubits' = allocated_qubits \cup {input'.cmd[1].qubit}
              /\ UNCHANGED <<quil, measured_ids, probabilities>>]_vars

\* C24, amended: a Deallocate or Allocate op never fails, adds no
\* instruction and leaves the measured-id list as it was; as the first op
\* accepted after a flush that reset the backend it empties the program
\* text, the allocated set and the probability table, and otherwise it
\* leaves them as they were; an Allocate op then adds the qubit id to the
\* allocated set.
C24_AllocationOps ==
    [][(Stored("Deallocate") \/ Stored("Allocate")) =>
           LET added == IF input'.cmd[1].gate = "Allocate"
                        THEN {input'.cmd[1].qubit} ELSE {}
           IN  /\ err' = "" /\ measured_ids' = measured_ids
               /\ IF clear
                  THEN /\ quil' = <<>> /\ probabilities' = <<>>
                       /\ allocated_qubits' = added
                  ELSE /\ UNCHANGED <<quil, probabilities>>
                       /\ allocated_qubits' = allocated_qubits \cup added]_vars

\* a Deallocate op was the first op after a run, and has emptied the table
\* the run left
C24_Witness ==
    /\ op = "store" /\ input.cmd # <<>> /\ input.cmd[1].gate = "Deallocate"
    /\ ran /\ stored >= 3
    /\ quil = <<>> /\ allocated_qubits = {} /\ probabilities = <<>>
    /\ measured_ids = <<>>

\* the supported gate / control combinations
Supported(cmd) ==
    \/ cmd.gate = NOT /\ get_control_count(cmd) <= 2
    \/ /\ cmd.gate \in Rotations \cup {"Y", "Z", "T", "Tdag", "S", "Sdag", "H"}
       /\ get_control_count(cmd) <= 1

\* C25: accepting an op of a supported gate / control combination appends
\* exactly one instruction line to the program text and changes nothing
\* before it; the line names controls+1 qubit ids, the controls first and
\* the target last, as CNOT for a NOT with 1 control, CCNOT for 2, and in
\* the CONTROLLED form for another gate with 1 control.
C25_OneLinePerGate ==
    [][(StoreStep /\ Supported(input'.cmd[1])) =>
           LET cmd == input'.cmd[1]
               cc == get_control_count(cmd)
               line == quil'[Len(quil')]
           IN  /\ err' = ""
               /\ Len(quil') = Len(quil) + 1
               /\ SubSeq(quil', 1, Len(quil)) = quil
               /\ line.args = cmd.controls \o <<cmd.qubit>>
               /\ Len(line.args) = cc + 1
               /\ (cmd.gate = NOT /\ cc = 1) => line.name = "CNOT"
               /\ (cmd.gate = NOT /\ cc = 2) => line.name = "CCNOT"
               /\ (cmd.gate # NOT /\ cc = 1) <=> line.prefix = "CONTROLLED"]_vars

\* the stored state agrees with the bitstring key on the qubits of qureg
Agrees(state, key, qureg) ==
    \A i \in DOMAIN qureg : state[mapping[qureg[i]] + 1] = key[i]
\* the counts of the stored states, from item i on, that agree with key
RECURSIVE SumAgreeing(_, _, _, _)
SumAgreeing(table, i, key, qureg) ==
    IF i > Len(table) THEN 0
    ELSE (IF Agrees(table[i].k, key, qureg) THEN table[i].v[1] ELSE 0)
         + SumAgreeing(table, i + 1, key, qureg)

\* C26: get_probabilities of a register of at least one qubit returns, for
\* each projected bitstring, the total probability of the stored states
\* that agree with it on the qubits named, so that the values returned sum
\* to the total of the stored table.
C26_ProjectionSums ==
    (op = "get_probabilities" /\ err = "" /\ ret.kind = "dict" /\ ret.arg # <<>>) =>
        /\ \A i \in DOMAIN ret.val :
               ret.val[i].v[1] = SumAgreeing(probabilities, 1, ret.val[i].k, ret.arg)
        /\ SumCounts(ret.val, 1) = SumCounts(probabilities, 1)

\* C27: a flush of a circuit that has emitted at least one instruction,
\* with every measured id in the mapping, makes exactly one network call;
\* stated for a circuit that follows a run, whose qubits were allocated in
\* an earlier circuit.
C27_FlushReachesCall ==
    [][(FlushStep /\ ran /\ ~clear /\ quil # <<>> /\ AllMapped(measured_ids)) =>
           Len(net') = 1]_vars

\* C28: a flush that ends in an error has delivered no bit and has written
\* no entry into the probability table, and get_probabilities called after
\* it raises the no-data error.
C28_FailedFlushExposesNothing ==
    [][(FlushStep /\ err' # "") =>
           /\ delivered' = <<>>
           /\ probabilities' = probabilities
           /\ \A qureg \in Registers :
                  get_probabilities(mapping', probabilities', qureg).err = NoDataError]_vars

\* the bit that the run delivered for the logical id q
DeliveredBit(q) == delivered[CHOOSE i \in DOMAIN delivered : delivered[i][1] = q][2]

\* C29: after a successful run, for the register of the measured qubits in
\* any order, the string of the delivered bits in that order is a key of
\* get_probabilities(register), with a probability greater than 0.
C29_DeliveredAgreesWithTable ==
    RunSucceeded =>
        LET ids == {delivered[i][1] : i \in DOMAIN delivered}
        IN  \A qureg \in {r \in RegistersOf(ids) : Len(r) = Cardinality(ids)} :
                LET r == get_probabilities(mapping, probabilities, qureg)
                    key == [i \in DOMAIN qureg |-> DeliveredBit(qureg[i])]
                IN  /\ r.err = ""
                    /\ key \in DictKeys(r.val)
                    /\ DictGet(r.val, key)[1] > 0

\* a run has delivered two different bits for two qubits that the mapping
\* places in the reverse order
C29_Witness ==
    /\ RunSucceeded
    /\ Len(delivered) = 2 /\ delivered[1][1] # delivered[2][1]
    /\ delivered[1][2] # delivered[2][2]
    /\ mapping[0] = MaxQubit

=============================================================================
